---- MODULE Spec2Model ----
(***************************************************************************)
(* Model of sonicwall_api_client.py: the response normaliser get_result    *)
(* and the SonicWallClient session wrapper.                                *)
(*                                                                         *)
(* Representation.                                                         *)
(*  - A Python dict is a function whose domain is its set of keys; d.get   *)
(*    is the operator Get.  A Python list is a sequence.                   *)
(*  - Strings on which the code computes (the method name, which is        *)
(*    lower-cased and compared, and URLs, which are concatenated) are      *)
(*    sequences of one-character strings.  Strings that are only passed    *)
(*    around (messages, dict keys) are TLA+ strings.                       *)
(*  - A call either returns a value or raises: Return(v) / Raise(e).       *)
(*  - The firewall and the network are the environment: every HTTP call    *)
(*    draws its response from Responses.  Response bodies range over the   *)
(*    JSON objects of the vendor's envelope: an optional "status" object   *)
(*    with an optional "success" flag and an optional "info" list of       *)
(*    objects with an optional "message".                                  *)
(***************************************************************************)
EXTENDS Integers, Sequences, FiniteSets, TLC

VARIABLES api_url, session, ncalls, call, op, outcome

vars == <<api_url, session, ncalls, call, op, outcome>>

(***************************************************************************)
(* Bounds                                                                  *)
(***************************************************************************)
\* HTTP calls issued on the session before the model stops
MaxCalls == 2
\* longest "info" list the firewall sends
MaxInfoLen == 2

(***************************************************************************)
(* Python values                                                           *)
(***************************************************************************)
None == [py |-> "None"]

EmptyDict == [k \in {} |-> TRUE]

Return(v) == [kind |-> "return", value |-> v]

Raise(e) == [kind |-> "raise", exc |-> e]

\* dict.get(key, default)
Get(d, key, default) == IF key \in DOMAIN d THEN d[key] ELSE default

UpperCase == <<"A","B","C","D","E","F","G","H","I","J","K","L","M",
               "N","O","P","Q","R","S","T","U","V","W","X","Y","Z">>

LowerCase == <<"a","b","c","d","e","f","g","h","i","j","k","l","m",
               "n","o","p","q","r","s","t","u","v","w","x","y","z">>

LowerChar(c) ==
    IF \E i \in 1..Len(UpperCase) : UpperCase[i] = c
    THEN LowerCase[CHOOSE i \in 1..Len(UpperCase) : UpperCase[i] = c]
    ELSE c

\* str.lower()
Lower(s) == [i \in 1..Len(s) |-> LowerChar(s[i])]

Digits == <<"0","1","2","3","4","5","6","7","8","9">>

RECURSIVE IntToStr(_)
\* the decimal text an f-string gives a non-negative int
IntToStr(n) ==
    IF n < 10 THEN <<Digits[n + 1]>>
    ELSE IntToStr(n \div 10) \o <<Digits[(n % 10) + 1]>>

IsPrefix(p, s) == Len(p) <= Len(s) /\ SubSeq(s, 1, Len(p)) = p

(***************************************************************************)
(* Inputs                                                                  *)
(***************************************************************************)
Ips == { <<"1","0",".","0",".","0",".","1">> }

Ports == {443, 8443}

Usernames == {"admin"}

Passwords == {"pw"}

GET == <<"g","e","t">>
POST == <<"p","o","s","t">>
PUT == <<"p","u","t">>
PATCH == <<"p","a","t","c","h">>
DELETE == <<"d","e","l","e","t","e">>

Verbs == {GET, POST, PUT, PATCH, DELETE}

\* method names handed to request(): every verb in some spelling, and names
\* that are no verb
Methods ==
    { GET, <<"P","O","S","T">>, <<"P","u","t">>, <<"p","a","t","c","H">>,
      <<"D","E","L","E","T","E">>,
      <<"h","e","a","d">>, <<"H","E","A","D">>, <<"g","e","t","s">> }

Paths == { <<"/","x">>,
           <<"/","a","d","d","r","e","s","s","-","o","b","j","e","c","t",
             "/","i","p","v","4">> }

Payloads == { None, [name |-> "test"] }

\* entries of status.info: with and without a "message"
InfoEntries == { EmptyDict, [message |-> "m1"], [message |-> "m2"] }

InfoListsOver(E) == UNION { [1..n -> E] : n \in 0..MaxInfoLen }

\* status blocks: "success" absent, true or false; "info" absent or a list
StatusBlocksOver(E) ==
    { s @@ i : s \in {EmptyDict, [success |-> TRUE], [success |-> FALSE]},
               i \in {EmptyDict} \cup { [info |-> l] : l \in InfoListsOver(E) } }

PlainBodies == { EmptyDict, [name |-> "test"] }

\* JSON bodies: without a status block, and every status block alone and
\* beside a payload key
Bodies ==
    PlainBodies \cup
    { [status |-> s] @@ b : s \in StatusBlocksOver(InfoEntries), b \in PlainBodies }

\* the bodies the client operations are run against: the status blocks over
\* one kind of entry, alone, and two status blocks beside a payload key
ClientBodies ==
    PlainBodies \cup
    { [status |-> s] : s \in StatusBlocksOver({[message |-> "m1"]}) } \cup
    { [status |-> [success |-> b], name |-> "test"] : b \in BOOLEAN }

\* what the session hands back for one HTTP call: a transport fault, a body
\* that is not JSON, or a JSON body
ResponsesOver(B) ==
    { [kind |-> "fault"], [kind |-> "text"] } \cup
    { [kind |-> "json", body |-> b] : b \in B }

Responses == ResponsesOver(ClientBodies)

(***************************************************************************)
(* get_result                                                              *)
(***************************************************************************)
\* get_result with the body dropped from the plain branch
get_result_no_body(response) ==
    IF response.kind # "json" THEN Raise("JSONDecodeError")
    ELSE LET result == response.body IN
         IF "status" \in DOMAIN result
         THEN LET success == Get(result["status"], "success", FALSE)
                  info == Get(result["status"], "info", <<EmptyDict>>)
              IN  IF Len(info) = 0 THEN Raise("IndexError")
                  ELSE Return(<<success,
                                Get(info[1], "message", "Unknown error"),
                                None>>)
         ELSE Return(<<TRUE, "Success.", None>>)

\* get_result reading the last info entry ([-1]) instead of the first
get_result_last_entry(response) ==
    IF response.kind # "json" THEN Raise("JSONDecodeError")
    ELSE LET result == response.body IN
         IF "status" \in DOMAIN result
         THEN LET success == Get(result["status"], "success", FALSE)
                  info == Get(result["status"], "info", <<EmptyDict>>)
              IN  IF Len(info) = 0 THEN Raise("IndexError")
                  ELSE Return(<<success,
                                Get(info[Len(info)], "message", "Unknown error"),
                                None>>)
         ELSE Return(<<TRUE, "Success.", result>>)

\* get_result handing the body back beside a status block
get_result_keeps_body(response) ==
    IF response.kind # "json" THEN Raise("JSONDecodeError")
    ELSE LET result == response.body IN
         IF "status" \in DOMAIN result
         THEN LET success == Get(result["status"], "success", FALSE)
                  info == Get(result["status"], "info", <<EmptyDict>>)
              IN  IF Len(info) = 0 THEN Raise("IndexError")
                  ELSE Return(<<success,
                                Get(info[1], "message", "Unknown error"),
                                result>>)
         ELSE Return(<<TRUE, "Success.", result>>)

\* response.json() raises on a body that is not JSON; [{}][0] is the default
\* for a missing "info", and [0] of an empty list raises IndexError
get_result(response) ==
    IF response.kind # "json" THEN Raise("JSONDecodeError")
    ELSE LET result == response.body IN
         IF "status" \in DOMAIN result
         THEN LET success == Get(result["status"], "success", FALSE)
                  info == Get(result["status"], "info", <<EmptyDict>>)
              IN  IF Len(info) = 0 THEN Raise("IndexError")
                  ELSE Return(<<success,
                                Get(info[1], "message", "Unknown error"),
                                None>>)
         ELSE Return(<<TRUE, "Success.", result>>)

(***************************************************************************)
(* SonicWallClient                                                         *)
(***************************************************************************)
\* __init__: the f-string that builds api_url
BaseUrl(ip, port) ==
    <<"h","t","t","p","s",":","/","/">> \o ip \o <<":">> \o IntToStr(port)
        \o <<"/","a","p","i","/","s","o","n","i","c","o","s">>

AuthPath == <<"/","a","u","t","h">>

PendingPath == <<"/","c","o","n","f","i","g","/","p","e","n","d","i","n","g">>

Init ==
    /\ \E ip \in Ips, port \in Ports : api_url = BaseUrl(ip, port)
    /\ \E username \in Usernames, password \in Passwords :
          session = [id |-> 1,
                     auth |-> [username |-> username, password |-> password],
                     verify |-> FALSE]
    /\ ncalls = 0
    /\ call = None
    /\ op = [name |-> "__init__"]
    /\ outcome = Return(None)

\* self.session.<verb>(url, json=json): one HTTP call on the session
session_call(verb, url, json) ==
    /\ ncalls' = ncalls + 1
    /\ call' = [verb |-> verb, url |-> url, json |-> json, session |-> session]

\* the call wrapped in try/except, a transport fault turned into a tuple
finish_catches(response) ==
    IF response.kind = "fault" THEN Return(<<FALSE, "Connection error", None>>)
    ELSE get_result(response)

\* the value of "response = self.session...; return get_result(response)":
\* a transport fault is raised by the session call itself
finish(response) ==
    IF response.kind = "fault" THEN Raise("ConnectionError")
    ELSE get_result(response)

\* login that posts a second time when the first answer is not a success
login_retries ==
    /\ ncalls < MaxCalls
    /\ \E response \in Responses, second \in Responses :
          LET url == api_url \o AuthPath
              payload == [override |-> TRUE]
              first == finish(response)
              failed == first.kind = "return" /\ first.value[1] = FALSE
          IN  /\ ncalls' = IF failed THEN ncalls + 2 ELSE ncalls + 1
              /\ call' = [verb |-> POST, url |-> url, json |-> payload,
                          session |-> session]
              /\ outcome' = IF failed THEN finish(second) ELSE first
              /\ op' = [name |-> "login",
                        response |-> IF failed THEN second ELSE response]
    /\ UNCHANGED <<api_url, session>>

login ==
    /\ ncalls < MaxCalls
    /\ \E response \in Responses :
          LET url == api_url \o AuthPath
              payload == [override |-> TRUE]
          IN  /\ session_call(POST, url, payload)
              /\ outcome' = finish(response)
              /\ op' = [name |-> "login", response |-> response]
    /\ UNCHANGED <<api_url, session>>

\* logout that replaces the session object after the call
logout_new_session ==
    /\ ncalls < MaxCalls
    /\ \E response \in Responses :
          LET url == api_url \o AuthPath
          IN  /\ session_call(DELETE, url, None)
              /\ outcome' = finish(response)
              /\ op' = [name |-> "logout", response |-> response]
    /\ session' = [session EXCEPT !.id = @ + 1]
    /\ UNCHANGED api_url

logout ==
    /\ ncalls < MaxCalls
    /\ \E response \in Responses :
          LET url == api_url \o AuthPath
          IN  /\ session_call(DELETE, url, None)
              /\ outcome' = finish(response)
              /\ op' = [name |-> "logout", response |-> response]
    /\ UNCHANGED <<api_url, session>>

get_pending_configurations ==
    /\ ncalls < MaxCalls
    /\ \E response \in Responses :
          LET url == api_url \o PendingPath
          IN  /\ session_call(GET, url, None)
              /\ outcome' = finish(response)
              /\ op' = [name |-> "get_pending_configurations",
                        response |-> response]
    /\ UNCHANGED <<api_url, session>>

commit ==
    /\ ncalls < MaxCalls
    /\ \E response \in Responses :
          LET url == api_url \o PendingPath
          IN  /\ session_call(POST, url, EmptyDict)
              /\ outcome' = finish(response)
              /\ op' = [name |-> "commit", response |-> response]
    /\ UNCHANGED <<api_url, session>>

delete_pending_configurations ==
    /\ ncalls < MaxCalls
    /\ \E response \in Responses :
          LET url == api_url \o PendingPath
          IN  /\ session_call(DELETE, url, EmptyDict)
              /\ outcome' = finish(response)
              /\ op' = [name |-> "delete_pending_configurations",
                        response |-> response]
    /\ UNCHANGED <<api_url, session>>

\* request() whose final else falls back to a GET
request_body_default_get(method, path, payload, response) ==
    LET url == api_url \o path
        m == Lower(method)
        send(verb) ==
            /\ session_call(verb, url, payload)
            /\ outcome' = finish(response)
            /\ op' = [name |-> "request", method |-> method, path |-> path,
                      payload |-> payload, response |-> response]
    IN  IF m = GET THEN send(GET)
        ELSE IF m = POST THEN send(POST)
        ELSE IF m = PUT THEN send(PUT)
        ELSE IF m = PATCH THEN send(PATCH)
        ELSE IF m = DELETE THEN send(DELETE)
        ELSE send(GET)

\* request() whose "put" branch calls session.post
request_body_put_posts(method, path, payload, response) ==
    LET url == api_url \o path
        m == Lower(method)
        send(verb) ==
            /\ session_call(verb, url, payload)
            /\ outcome' = finish(response)
            /\ op' = [name |-> "request", method |-> method, path |-> path,
                      payload |-> payload, response |-> response]
    IN  IF m = GET THEN send(GET)
        ELSE IF m = POST THEN send(POST)
        ELSE IF m = PUT THEN send(POST)
        ELSE IF m = PATCH THEN send(PATCH)
        ELSE IF m = DELETE THEN send(DELETE)
        ELSE /\ outcome' = Return(<<FALSE, "Bad method", None>>)
             /\ op' = [name |-> "request", method |-> method, path |-> path,
                       payload |-> payload]
             /\ UNCHANGED <<ncalls, call>>

\* the body of request() for one choice of arguments and of the response the
\* session would give
request_body(method, path, payload, response) ==
    LET url == api_url \o path
        m == Lower(method)
        send(verb) ==
            /\ session_call(verb, url, payload)
            /\ outcome' = finish(response)
            /\ op' = [name |-> "request", method |-> method, path |-> path,
                      payload |-> payload, response |-> response]
    IN  IF m = GET THEN send(GET)
        ELSE IF m = POST THEN send(POST)
        ELSE IF m = PUT THEN send(PUT)
        ELSE IF m = PATCH THEN send(PATCH)
        ELSE IF m = DELETE THEN send(DELETE)
        ELSE /\ outcome' = Return(<<FALSE, "Bad method", None>>)
             /\ op' = [name |-> "request", method |-> method, path |-> path,
                       payload |-> payload]
             /\ UNCHANGED <<ncalls, call>>

request ==
    /\ ncalls < MaxCalls
    /\ \E method \in Methods, path \in Paths, payload \in Payloads,
          response \in Responses :
          request_body(method, path, payload, response)
    /\ UNCHANGED <<api_url, session>>

Next ==
    \/ login
    \/ logout
    \/ get_pending_configurations
    \/ commit
    \/ delete_pending_configurations
    \/ request

Spec == Init /\ [][Next]_vars

(***************************************************************************)
(* get_result on its own: a response has arrived and is normalised         *)
(***************************************************************************)
InitResult ==
    /\ \E ip \in Ips, port \in Ports : api_url = BaseUrl(ip, port)
    /\ session = [id |-> 1,
                  auth |-> [username |-> "admin", password |-> "pw"],
                  verify |-> FALSE]
    /\ ncalls = 0
    /\ call = None
    /\ \E response \in ResponsesOver(Bodies) \ {[kind |-> "fault"]} :
          op = [name |-> "response", response |-> response]
    /\ outcome = Return(None)

Normalise ==
    /\ op.name = "response"
    /\ outcome' = get_result(op.response)
    /\ op' = [name |-> "get_result", response |-> op.response]
    /\ UNCHANGED <<api_url, session, ncalls, call>>

SpecResult == InitResult /\ [][Normalise]_vars

(***************************************************************************)
(* Properties                                                              *)
(***************************************************************************)
\* the last operation consumed a response of the session
HasResponse == "response" \in DOMAIN op

\* ... whose body parsed as JSON
ParsedBody == HasResponse /\ op.response.kind = "json"

\* ... and carries a status block
HasStatus == ParsedBody /\ "status" \in DOMAIN op.response.body

StatusBlock == op.response.body["status"]

\* get_result has been applied to op.response
Normalised == op.name = "get_result"

\* the last operation is one of the five named operations
NamedOp(o) ==
    o.name \in {"login", "logout", "get_pending_configurations", "commit",
                "delete_pending_configurations"}

\* the last operation is request() with a method name that is no verb
BadMethod(o) == o.name = "request" /\ Lower(o.method) \notin Verbs

\* the last operation is request() with a recognised method name
GoodMethod(o) == o.name = "request" /\ Lower(o.method) \in Verbs

\* C1: a status block with success=false and an empty info list gives
\* (false, "Unknown error", none), returned normally.
C1_EmptyInfoUnknownError ==
    (/\ Normalised /\ HasStatus
     /\ "success" \in DOMAIN StatusBlock /\ StatusBlock["success"] = FALSE
     /\ "info" \in DOMAIN StatusBlock /\ StatusBlock["info"] = <<>>)
    => outcome = Return(<<FALSE, "Unknown error", None>>)

\* C2: a request whose lower-cased method name is no verb returns
\* (false, "Bad method", none) and issues no HTTP call on the session.
C2_BadMethodNoCall ==
    [][BadMethod(op') =>
          /\ outcome' = Return(<<FALSE, "Bad method", None>>)
          /\ ncalls' = ncalls
          /\ call' = call]_vars

C2_Witness ==
    /\ op.name = "request" /\ op.method = <<"H","E","A","D">>
    /\ ncalls = 1 /\ call # None
    /\ outcome = Return(<<FALSE, "Bad method", None>>)

\* C3: a parsed body without a "status" key gives success=true,
\* message "Success." and the whole body as data.
C3_NoStatusIsSuccess ==
    (Normalised /\ ParsedBody /\ ~HasStatus)
    => outcome = Return(<<TRUE, "Success.", op.response.body>>)

C3_Witness ==
    /\ Normalised /\ ParsedBody
    /\ op.response.body = [name |-> "test"]
    /\ outcome.kind = "return" /\ outcome.value[3] = [name |-> "test"]

\* C4: every parsed body with a "status" key gives data=none and success
\* equal to status.success, or false when the block has no success field.
C4_StatusGivesSuccessAndNoData ==
    (Normalised /\ HasStatus)
    => /\ outcome.kind = "return"
       /\ outcome.value[1] = Get(StatusBlock, "success", FALSE)
       /\ outcome.value[3] = None

\* C5: with success=false and a non-empty info list, the message is the
\* message field of the first info entry; later entries are ignored.
C5_FirstInfoMessage ==
    (/\ Normalised /\ HasStatus
     /\ "success" \in DOMAIN StatusBlock /\ StatusBlock["success"] = FALSE
     /\ "info" \in DOMAIN StatusBlock /\ Len(StatusBlock["info"]) > 0
     /\ "message" \in DOMAIN StatusBlock["info"][1])
    => /\ outcome.kind = "return"
       /\ outcome.value[2] = StatusBlock["info"][1]["message"]

C5_Witness ==
    /\ Normalised /\ HasStatus
    /\ StatusBlock = [success |-> FALSE,
                      info |-> <<[message |-> "m1"], [message |-> "m2"]>>]
    /\ outcome = Return(<<FALSE, "m1", None>>)

\* C6: each named operation, and each request with a recognised method,
\* issues exactly one HTTP call, whatever came before and whatever the
\* response.
C6_ExactlyOneCall ==
    [][(NamedOp(op') \/ GoodMethod(op')) => ncalls' = ncalls + 1]_vars

C6_Witness ==
    /\ op.name = "login" /\ ncalls = 2
    /\ outcome = Return(<<FALSE, "m1", None>>)

\* C7: a request with a case variant of a verb issues that verb, lower-cased,
\* to api_url + path with the payload as JSON body, and returns get_result of
\* the response.
C7_RequestPassthrough ==
    GoodMethod(op)
    => /\ call = [verb |-> Lower(op.method), url |-> api_url \o op.path,
                  json |-> op.payload, session |-> session]
       /\ op.response.kind # "fault" => outcome = get_result(op.response)

C7_Witness ==
    /\ op.name = "request" /\ op.method = <<"P","O","S","T">>
    /\ op.payload = [name |-> "test"]
    /\ call.verb = POST /\ call.json = [name |-> "test"]
    /\ call.url = BaseUrl(<<"1","0",".","0",".","0",".","1">>, 443) \o
                  <<"/","a","d","d","r","e","s","s","-","o","b","j","e","c","t",
                    "/","i","p","v","4">>
    /\ outcome = Return(<<TRUE, "Success.", [name |-> "test"]>>)

\* C8: api_url is https://{address}:{port}/api/sonicos and no operation
\* changes it or the session; every HTTP call goes to a URL that starts with
\* api_url, through that session.
C8_BaseUrlFixed ==
    /\ [](\E ip \in Ips, port \in Ports : api_url = BaseUrl(ip, port))
    /\ [][api_url' = api_url /\ session' = session]_vars
    /\ [](call # None => IsPrefix(api_url, call.url) /\ call.session = session)

C8_Witness ==
    /\ op.name = "logout" /\ ncalls = 2
    /\ api_url = <<"h","t","t","p","s",":","/","/","1","0",".","0",".","0",
                   ".","1",":","8","4","4","3","/","a","p","i","/","s","o",
                   "n","i","c","o","s">>
    /\ call.url = api_url \o AuthPath /\ call.session = session

\* C9: in every returned tuple success=false implies data=none, and data is
\* other than none only when the body had no status block and success=true.
C9_NoDataOnFailure ==
    (op.name # "__init__" /\ outcome.kind = "return")
    => /\ outcome.value[1] = FALSE => outcome.value[3] = None
       /\ outcome.value[3] # None => (ParsedBody /\ ~HasStatus /\ outcome.value[1] = TRUE)

C9_Witness ==
    /\ HasStatus
    /\ op.response.body = [status |-> [success |-> FALSE], name |-> "test"]
    /\ outcome = Return(<<FALSE, "Unknown error", None>>)

\* C10: a transport fault or a body that is not JSON is raised to the caller,
\* no tuple is returned; a returned tuple with success=false comes from a
\* status block or from a bad method name.
C10_FaultsPropagate ==
    /\ (HasResponse /\ op.response.kind = "fault")
          => outcome = Raise("ConnectionError")
    /\ (HasResponse /\ op.response.kind = "text")
          => outcome = Raise("JSONDecodeError")
    /\ (op.name # "__init__" /\ outcome.kind = "return" /\ outcome.value[1] = FALSE)
          => (BadMethod(op) \/ HasStatus)

C10_Witness ==
    /\ op.name = "commit" /\ op.response.kind = "fault"
    /\ outcome.kind = "raise" /\ ncalls = 1

====
